---- MODULE Spec2Model ----
(***************************************************************************)
(* Model of the lock-aware calendar-feed -> CSV reconciliation script      *)
(* (src/scripts/ics_to_csv.js, second revision, lines 176-561).            *)
(*                                                                         *)
(* Text is modelled as a sequence of tokens.  A token is a TLA+ string     *)
(* standing for one character, or for a run of characters that every       *)
(* regular expression of the script treats as a unit (a file name, a URL   *)
(* prefix ending in "/", a directive key, a whole ISO timestamp).  The     *)
(* empty JavaScript string is <<>>; JavaScript null is NULL.  An accented  *)
(* letter is one token named after it: e-acute.                            *)
(***************************************************************************)
EXTENDS Integers, Sequences, FiniteSets, TLC

\* JavaScript null / undefined (luxon's toISO() result for an invalid DateTime).
NULL == <<"<null>">>

Range(s) == {s[i] : i \in DOMAIN s}

-----------------------------------------------------------------------------
(* Character classes                                                       *)

\* \s of the regular expressions: blank and line break.
IsSpace(c) == c \in {" ", "\n"}

\* String.prototype.toLowerCase on the letters the model uses.
toLowerCase(c) ==
  CASE c = "B" -> "b" [] c = "C" -> "c" [] c = "D" -> "d" [] c = "P" -> "p"
    [] c = "Q" -> "q" [] c = "E-acute" -> "e-acute"
    [] c = "Cover" -> "cover" [] c = "Image" -> "image" [] c = "Place" -> "place"
    [] OTHER -> c

\* normalize("NFD") followed by removal of the combining marks U+0300-U+036F.
stripAccents(c) ==
  CASE c = "e-acute" -> "e" [] c = "e-grave" -> "e" [] c = "a-grave" -> "a"
    [] OTHER -> c

\* [a-z0-9]
IsAlnum(c) ==
  c \in {"a", "b", "c", "d", "e", "f", "l", "n", "p", "q", "s", "t",
         "0", "1", "2"}

-----------------------------------------------------------------------------
(* helpers (generic)                                                       *)

RECURSIVE trimStart(_)
trimStart(s) ==
  IF s # <<>> /\ IsSpace(Head(s)) THEN trimStart(Tail(s)) ELSE s

RECURSIVE trimEnd(_)
trimEnd(s) ==
  IF s # <<>> /\ IsSpace(s[Len(s)]) THEN trimEnd(SubSeq(s, 1, Len(s) - 1)) ELSE s

\* String.prototype.trim
trim(s) == trimEnd(trimStart(s))

\* replace(/\s+/g, " ")
RECURSIVE collapseSpaces(_)
collapseSpaces(s) ==
  IF s = <<>> THEN <<>>
  ELSE IF IsSpace(Head(s)) THEN <<" ">> \o collapseSpaces(trimStart(s))
  ELSE <<Head(s)>> \o collapseSpaces(Tail(s))

\* const clean = (s) => (s ?? "").toString().replace(/\s+/g, " ").trim();
clean(s) == IF s = NULL THEN <<>> ELSE trim(collapseSpaces(s))

\* replace(/[^a-z0-9]+/g, "-")
RECURSIVE dashRuns(_, _)
dashRuns(s, inRun) ==
  IF s = <<>> THEN <<>>
  ELSE IF IsAlnum(Head(s)) THEN <<Head(s)>> \o dashRuns(Tail(s), FALSE)
  ELSE IF inRun THEN dashRuns(Tail(s), TRUE)
  ELSE <<"-">> \o dashRuns(Tail(s), TRUE)

\* replace(/^-+|-+$/g, "")
RECURSIVE stripDashes(_)
stripDashes(s) ==
  IF s # <<>> /\ Head(s) = "-" THEN stripDashes(Tail(s))
  ELSE IF s # <<>> /\ s[Len(s)] = "-" THEN stripDashes(SubSeq(s, 1, Len(s) - 1))
  ELSE s

slug(s) ==
  LET c == clean(s)
      folded == [i \in DOMAIN c |-> stripAccents(toLowerCase(c[i]))]
  IN  stripDashes(dashRuns(folded, FALSE))

-----------------------------------------------------------------------------
(* Timestamps.  An instant is a number of seconds.  Its ISO text in the    *)
(* script's zone is the token "T<seconds>"; "Z<seconds>" is another        *)
(* spelling (another offset) of the same instant, which luxon parses and   *)
(* never prints.                                                           *)

SecondsPerHour == 3600
SecondsPerMinute == 60

\* The instants whose ISO text the model can hold: hours 0..2, at 0 s and 30 s.
Instants == {h * SecondsPerHour + s : h \in 0..2, s \in {0, 30}}

isoLocal(t) == "T" \o ToString(t)
isoOther(t) == "Z" \o ToString(t)

\* DateTime.fromISO(iso, { zone: ZONE }).isValid
isValidISO(iso) ==
  /\ iso # NULL
  /\ Len(iso) = 1
  /\ \E t \in Instants : iso[1] \in {isoLocal(t), isoOther(t)}

\* the instant DateTime.fromISO(iso) denotes, for a valid text
fromISO(iso) == CHOOSE t \in Instants : iso[1] \in {isoLocal(t), isoOther(t)}

\* DateTime.toISO({ suppressMilliseconds: true })
toISO(t) == <<isoLocal(t)>>

\* ev.start as the feed parser hands it over: absent, an invalid Date, or a Date
StartMissing == [kind |-> "missing", t |-> 0]
StartInvalid == [kind |-> "invalid", t |-> 0]
StartAt(t) == [kind |-> "date", t |-> t]

toISOWithOffset(d) == IF d.kind = "date" THEN toISO(d.t) ELSE NULL

\* dt.startOf("minute")
startOfMinute(t) == t - (t % SecondsPerMinute)

\* roundToMinuteISO without startOf("minute") (used to test the properties)
roundToMinuteISO_keepSeconds(iso) ==
  IF isValidISO(iso) THEN toISO(fromISO(iso)) ELSE NULL

roundToMinuteISO(iso) ==
  IF isValidISO(iso) THEN toISO(startOfMinute(fromISO(iso))) ELSE NULL

\* the template n__s__p: a null s prints as the text "null"
canonicalKey(row) ==
  LET s == roundToMinuteISO(row.start_time)
      n == slug(row.name)
      p == slug(row.place)
  IN  n \o <<"__">> \o (IF s = NULL THEN <<"null">> ELSE s) \o <<"__">> \o p

-----------------------------------------------------------------------------
(* cover helpers                                                           *)

\* tokens that end in "/" (URL prefixes and directories)
SlashEnd ==
  {"/", "images/", "Images/", "org/", "repo/", "blob/", "data:image/",
   "https://cdn/", "https://kizbourges.fr/", "https://github.com/",
   "https://raw.githubusercontent.com/", "https://www.helloasso.com/"}

\* tokens matching ^https?:\/\/ (each holds the scheme and the host)
HttpPrefix ==
  {"https://cdn/", "https://kizbourges.fr/", "https://github.com/",
   "https://raw.githubusercontent.com/", "https://www.helloasso.com/"}

\* file names matching (logo|logo2)\.(?:png|jpe?g|webp), case-insensitively
LogoFile == {"logo.png", "logo2.jpg", "LOGO.PNG"}

\* file names matching \.(?:jpe?g|png|webp|gif)
ImageFile == LogoFile \cup {"poster.jpg", "auto.jpg", "alt.png"}

\* const SITE_ORIGIN = "https://kizbourges.fr", with the "/" the template adds
SiteOriginSlash == "https://kizbourges.fr/"

\* u.replace(/^\/+/, "")
RECURSIVE stripLeadingSlashes(_)
stripLeadingSlashes(u) ==
  IF u # <<>> /\ Head(u) = "/" THEN stripLeadingSlashes(Tail(u)) ELSE u

\* the first "/blob/" of a text: a "blob/" token right after a token ending in "/"
blobAt(u) ==
  {i \in 2..Len(u) : u[i] = "blob/" /\ u[i - 1] \in SlashEnd}

removeAt(u, i) == SubSeq(u, 1, i - 1) \o SubSeq(u, i + 1, Len(u))

minOf(S) == CHOOSE i \in S : \A j \in S : i <= j

normalizeCoverUrl(u0) ==
  IF u0 = NULL \/ u0 = <<>> THEN <<>>
  ELSE
    LET u == clean(u0)
        short == stripLeadingSlashes(u)
    IN  IF u = <<>> THEN u
        ELSE IF Head(u) = "data:image/" THEN u
        ELSE IF /\ Head(u) = "https://github.com/"
                /\ \E i \in 3..Len(u) : u[i] = "blob/" /\ u[i - 1] \in SlashEnd
             THEN LET raw == <<"https://raw.githubusercontent.com/">> \o Tail(u)
                  IN  removeAt(raw, minOf(blobAt(raw)))
        ELSE IF Head(u) \in HttpPrefix THEN u
        ELSE IF short # <<>> /\ Head(short) \in {"images/", "Images/"}
             THEN <<SiteOriginSlash>> \o short
        ELSE u

\* the longest run of non-blank tokens at the start of s: (\S+)
RECURSIVE nonSpaceRun(_)
nonSpaceRun(s) ==
  IF s = <<>> \/ IsSpace(Head(s)) THEN <<>>
  ELSE <<Head(s)>> \o nonSpaceRun(Tail(s))

\* the longest run of tokens other than blanks and ")" at the start of s: [^\s)]+
RECURSIVE urlRun(_)
urlRun(s) ==
  IF s = <<>> \/ IsSpace(Head(s)) \/ Head(s) = ")" THEN <<>>
  ELSE <<Head(s)>> \o urlRun(Tail(s))

\* text.match(/https?:\/\/[^\s)]+?\.(?:jpe?g|png|webp|gif)/i): the first URL that
\* reaches an image file name, cut at that name.  The modelled texts hold no
\* markdown image syntax, so the markdown match before it finds nothing.
firstImageFromText(text) ==
  IF text = NULL THEN <<>>
  ELSE
    LET hits == {i \in DOMAIN text :
                   /\ text[i] \in HttpPrefix
                   /\ \E k \in DOMAIN urlRun(SubSeq(text, i + 1, Len(text))) :
                        urlRun(SubSeq(text, i + 1, Len(text)))[k] \in ImageFile}
    IN  IF hits = {} THEN <<>>
        ELSE LET i == minOf(hits)
                 run == urlRun(SubSeq(text, i + 1, Len(text)))
                 k == minOf({j \in DOMAIN run : run[j] \in ImageFile})
             IN  <<text[i]>> \o SubSeq(run, 1, k)

\* desc.match(/\b(?:KEYS)\s*[:=-]\s*(\S+)/i): the word after the first KEY
\* that is followed by ":", "=" or "-" and a non-blank word
directiveWord(desc, keys) ==
  IF desc = NULL THEN <<>>
  ELSE
    LET after(i) == trimStart(SubSeq(desc, i + 1, Len(desc)))
        value(i) == nonSpaceRun(trimStart(Tail(after(i))))
        hits == {i \in DOMAIN desc :
                   /\ toLowerCase(desc[i]) \in keys
                   /\ after(i) # <<>>
                   /\ Head(after(i)) \in {":", "=", "-"}
                   /\ value(i) # <<>>}
    IN  IF hits = {} THEN <<>> ELSE value(minOf(hits))

CoverDirectiveKeys == {"cover", "couverture", "affiche", "image"}

coverDirectiveFromDescription(desc) == directiveWord(desc, CoverDirectiveKeys)

\* a || b on strings
orElse(a, b) == IF a = NULL \/ a = <<>> THEN b ELSE a

\* The modelled feed entries carry no ATTACH and no vendor image property, so
\* steps 1 and 2 find nothing.
extractCoverFromICS(ev) ==
  LET desc == orElse(ev.description, orElse(ev.summary, <<>>))
      directive == coverDirectiveFromDescription(desc)
      any == firstImageFromText(desc)
  IN  IF directive # <<>> THEN normalizeCoverUrl(directive)
      ELSE IF any # <<>> THEN normalizeCoverUrl(any)
      ELSE <<>>

-----------------------------------------------------------------------------
(* ticket helpers                                                          *)

\* text.match(/https?:\/\/[^\s)]+/i)
firstUrlFromText(text) ==
  IF text = NULL THEN <<>>
  ELSE
    LET hits == {i \in DOMAIN text : text[i] \in HttpPrefix}
    IN  IF hits = {} THEN <<>>
        ELSE LET i == minOf(hits)
             IN  <<text[i]>> \o urlRun(SubSeq(text, i + 1, Len(text)))

\* tokens in which TICKET_HOSTS finds a known ticketing host
TicketHostToken == {"https://www.helloasso.com/", "billetterie"}

\* TICKET_HOSTS.test(url)
TICKET_HOSTS(url) == \E i \in DOMAIN url : toLowerCase(url[i]) \in TicketHostToken

TicketDirectiveKeys ==
  {"ticket", "tickets", "billet", "billets", "billetterie", "reservation",
   "reservations", "r(e-acute)servation", "r(e-acute)servations", "inscription", "inscriptions"}

ticketDirectiveFromDescription(desc) == directiveWord(desc, TicketDirectiveKeys)

\* a token ending in "/" without that "/"
dropSlash(tok) ==
  CASE tok = "org/" -> "org" [] tok = "repo/" -> "repo" [] OTHER -> tok

\* /^https?:\/\/www\.helloasso\.com\/.+\/widget(?:\/)?$/i, then
\* u.replace(/\/widget\/?$/i, "")
normalizeTicketUrl(u0) ==
  IF u0 = NULL \/ u0 = <<>> THEN <<>>
  ELSE
    LET u == clean(u0)
        n == Len(u)
    IN  IF /\ n >= 3
           /\ Head(u) = "https://www.helloasso.com/"
           /\ toLowerCase(u[n]) \in {"widget", "widget/"}
           /\ u[n - 1] \in SlashEnd \ HttpPrefix
        THEN SubSeq(u, 1, n - 2) \o <<dropSlash(u[n - 1])>>
        ELSE u

extractTicketFromICS(ev) ==
  LET desc == orElse(ev.description, orElse(ev.summary, <<>>))
      direct == ticketDirectiveFromDescription(desc)
      anyUrl == firstUrlFromText(desc)
      evUrl == clean(ev.url)
  IN  IF direct # <<>> THEN normalizeTicketUrl(direct)
      ELSE IF anyUrl # <<>> /\ TICKET_HOSTS(anyUrl) THEN normalizeTicketUrl(anyUrl)
      ELSE IF evUrl # <<>> /\ TICKET_HOSTS(evUrl) THEN normalizeTicketUrl(evUrl)
      ELSE <<>>

-----------------------------------------------------------------------------
(* description tags (!cover:, !ticket:, !url:, !place:)                    *)

\* String(desc).split(/\r?\n/)
RECURSIVE splitLines(_)
splitLines(desc) ==
  IF \A i \in DOMAIN desc : desc[i] # "\n" THEN <<desc>>
  ELSE LET k == minOf({i \in DOMAIN desc : desc[i] = "\n"})
       IN  <<SubSeq(desc, 1, k - 1)>> \o splitLines(SubSeq(desc, k + 1, Len(desc)))

CoverTagKeys == {"cover", "image", "poster"}
TicketTagKeys == {"ticket", "billet", "tickets"}
EventTagKeys == {"event", "link", "url"}
PlaceTagKeys == {"place", "adresse"}
TagKeys == CoverTagKeys \cup TicketTagKeys \cup EventTagKeys \cup PlaceTagKeys

\* raw.match(/^\s*(!)?\s*(KEY)\s*:\s*(.+)$/i): [matched, bang, key, val]
tagMatch(raw) ==
  LET a == trimStart(raw)
      bang == a # <<>> /\ Head(a) = "!"
      b == IF bang THEN trimStart(Tail(a)) ELSE a
      c == IF b = <<>> THEN <<>> ELSE trimStart(Tail(b))
      val == IF c = <<>> THEN <<>> ELSE Tail(c)
  IN  IF /\ b # <<>>
         /\ toLowerCase(Head(b)) \in TagKeys
         /\ c # <<>>
         /\ Head(c) = ":"
         /\ val # <<>>
      THEN [matched |-> TRUE, bang |-> bang, key |-> toLowerCase(Head(b)),
            val |-> val]
      ELSE [matched |-> FALSE, bang |-> FALSE, key |-> "", val |-> <<>>]

\* const out = {}: no field is set
NoTags ==
  [cover |-> NULL, coverLock |-> FALSE, ticket_url |-> NULL, ticketLock |-> FALSE,
   event_url |-> NULL, eventLock |-> FALSE, place |-> NULL, placeLock |-> FALSE]

\* one turn of the loop over the lines
tagLine(out, raw) ==
  LET m == tagMatch(raw)
      v == trim(m.val)
  IN  IF ~m.matched THEN out
      ELSE IF m.key \in CoverTagKeys
        THEN [out EXCEPT !.cover = v, !.coverLock = m.bang]
      ELSE IF m.key \in TicketTagKeys
        THEN [out EXCEPT !.ticket_url = v, !.ticketLock = m.bang]
      ELSE IF m.key \in EventTagKeys
        THEN [out EXCEPT !.event_url = v, !.eventLock = m.bang]
      ELSE [out EXCEPT !.place = v, !.placeLock = m.bang]

RECURSIVE tagLines(_, _)
tagLines(out, lines) ==
  IF lines = <<>> THEN out ELSE tagLines(tagLine(out, Head(lines)), Tail(lines))

parseDescTags(desc) ==
  tagLines(NoTags, splitLines(IF desc = NULL THEN <<>> ELSE desc))

-----------------------------------------------------------------------------
(* merging priorities (manual first, with locks)                           *)

\* /^\s*!/.test(v)
isLocked(v) == v # NULL /\ trimStart(v) # <<>> /\ Head(trimStart(v)) = "!"

\* v.replace(/^\s*!/, "").trim()
unlock(v) ==
  IF v = NULL THEN NULL
  ELSE IF isLocked(v) THEN trim(Tail(trimStart(v)))
  ELSE trim(v)

hasVal(v) == clean(v) # <<>>

\* /(?:^|\/)(logo|logo2)\.(?:png|jpe?g|webp)$/i.test(u || "")
isGenericLogo(u) ==
  /\ u # NULL
  /\ u # <<>>
  /\ u[Len(u)] \in LogoFile
  /\ Len(u) > 1 => u[Len(u) - 1] \in SlashEnd

\* keepManual with the feed-first rule of preferICS (used to test the properties)
keepManual_feedFirst(existingVal, incomingVal) ==
  IF isLocked(existingVal) THEN unlock(existingVal)
  ELSE IF hasVal(incomingVal) THEN clean(incomingVal)
  ELSE existingVal

keepManual(existingVal, incomingVal) ==
  IF isLocked(existingVal) THEN unlock(existingVal)
  ELSE IF hasVal(existingVal) THEN existingVal
  ELSE clean(incomingVal)

\* preferICS with the manual-first rule of keepManual (used to test the properties)
preferICS_manualFirst(existingVal, incomingVal) ==
  IF isLocked(existingVal) THEN unlock(existingVal)
  ELSE IF hasVal(existingVal) THEN clean(existingVal)
  ELSE clean(incomingVal)

preferICS(existingVal, incomingVal) ==
  IF isLocked(existingVal) THEN unlock(existingVal)
  ELSE IF hasVal(incomingVal) THEN clean(incomingVal)
  ELSE clean(existingVal)

\* safeCover without the generic-logo guard (used to test the properties)
safeCover_noGuard(existingVal, incomingVal) == keepManual(existingVal, incomingVal)

safeCover(existingVal, incomingVal) ==
  LET picked == keepManual(existingVal, incomingVal)
  IN  IF isGenericLogo(picked) THEN clean(existingVal) ELSE picked

mergeRowsManualFirst(existing, incoming) ==
  [id         |-> keepManual(existing.id, incoming.id),
   name       |-> preferICS(existing.name, incoming.name),
   start_time |-> preferICS(existing.start_time, incoming.start_time),
   place      |-> preferICS(existing.place, incoming.place),
   cover      |-> safeCover(existing.cover, incoming.cover),
   event_url  |-> keepManual(existing.event_url, incoming.event_url),
   ticket_url |-> keepManual(existing.ticket_url, incoming.ticket_url)]

\* keyOf using the fingerprint for every row (used to test the properties)
keyOf_fingerprintOnly(row) == <<"ck__">> \o canonicalKey(row)

keyOf(row) ==
  LET byId == clean(row.id)
  IN  IF byId # <<>> THEN <<"id__">> \o byId
      ELSE <<"ck__">> \o canonicalKey(row)

-----------------------------------------------------------------------------
(* CSV helpers.  The store file is held as the sequence of records that    *)
(* Papa.parse reads from it, one text per column.                          *)

Fields == {"id", "name", "start_time", "place", "cover", "event_url", "ticket_url"}

Row(id, name, start_time, place, cover, event_url, ticket_url) ==
  [id |-> id, name |-> name, start_time |-> start_time, place |-> place,
   cover |-> cover, event_url |-> event_url, ticket_url |-> ticket_url]

parseCSV(rows) ==
  LET cleaned == [i \in DOMAIN rows |-> [f \in Fields |-> clean(rows[i][f])]]
      valid(r) == r.name # <<>> /\ r.start_time # <<>>
  IN  SelectSeq(cleaned, valid)

\* Papa.unparse prints null as the empty text
unparseCSV(rows) ==
  [i \in DOMAIN rows |->
     [f \in Fields |-> IF rows[i][f] = NULL THEN <<>> ELSE rows[i][f]]]

-----------------------------------------------------------------------------
(* ICS -> row (with auto extractors + description-tag overrides)           *)

Event(type, uid, summary, start, location, url, description) ==
  [type |-> type, uid |-> uid, summary |-> summary, start |-> start,
   location |-> location, url |-> url, description |-> description]

\* if (tags.x): set and not the empty text
isSet(v) == v # NULL /\ v # <<>>

toRowFromICS(ev) ==
  LET autoCover == normalizeCoverUrl(extractCoverFromICS(ev))
      autoTicket == normalizeTicketUrl(extractTicketFromICS(ev))
      tags == parseDescTags(ev.description)
      lockIf(b, v) == IF b THEN <<"!">> \o v ELSE v
  IN  [id         |-> clean(orElse(ev.uid, ev.summary)),
       name       |-> clean(ev.summary),
       start_time |-> toISOWithOffset(ev.start),
       place      |-> IF isSet(tags.place)
                      THEN lockIf(tags.placeLock, tags.place)
                      ELSE clean(ev.location),
       cover      |-> IF isSet(tags.cover)
                      THEN lockIf(tags.coverLock, normalizeCoverUrl(tags.cover))
                      ELSE autoCover,
       event_url  |-> IF isSet(tags.event_url)
                      THEN lockIf(tags.eventLock, tags.event_url)
                      ELSE clean(ev.url),
       ticket_url |-> IF isSet(tags.ticket_url)
                      THEN lockIf(tags.ticketLock, normalizeTicketUrl(tags.ticket_url))
                      ELSE autoTicket]

\* the loop of main over the parsed feed: entries that are no VEVENT, or lack a
\* start or a summary, are skipped
accepted(ev) ==
  /\ ev.type = "VEVENT"
  /\ ev.start.kind # "missing"
  /\ ev.summary # <<>>

incomingOf(data) ==
  LET evs == SelectSeq(data, accepted)
  IN  [i \in DOMAIN evs |-> toRowFromICS(evs[i])]

-----------------------------------------------------------------------------
(* main: merge (manual CSV first, then ICS; dedupe by UID or canonical key) *)

\* const REMOVAL_DELAY_HOURS = Number(process.env.REMOVAL_DELAY_HOURS ?? 24)
REMOVAL_DELAY_HOURS == 24

\* The Map of main, in insertion order: entries [key, row]; log holds one record
\* per call of mergeRowsManualFirst.
EmptyMerge == [map |-> <<>>, log |-> <<>>]

indexOfKey(m, key) == {i \in DOMAIN m : m[i].key = key}

\* r.start_time = roundToMinuteISO(r.start_time)
withRoundedStart(r) == [r EXCEPT !.start_time = roundToMinuteISO(r.start_time)]

addOrMerge(st, r0) ==
  LET r == withRoundedStart(r0)
      key == keyOf(r)
      at == indexOfKey(st.map, key)
  IN  IF at = {}
      THEN [st EXCEPT !.map = Append(st.map, [key |-> key, row |-> r])]
      ELSE LET i == CHOOSE j \in at : TRUE
               ex == st.map[i].row
               merged == mergeRowsManualFirst(ex, r)
           IN  [map |-> [st.map EXCEPT ![i] = [key |-> key, row |-> merged]],
                log |-> Append(st.log, [key |-> key, existing |-> ex,
                                        incoming |-> r, merged |-> merged])]

\* rows.forEach(addOrMerge)
RECURSIVE forEachAddOrMerge(_, _)
forEachAddOrMerge(st, rows) ==
  IF rows = <<>> THEN st
  ELSE forEachAddOrMerge(addOrMerge(st, Head(rows)), Tail(rows))

\* isKept with the comparison now > removeAt (used to test the properties)
isKept_late(r, n) ==
  /\ isValidISO(r.start_time)
  /\ ~(n > fromISO(r.start_time) + REMOVAL_DELAY_HOURS * SecondsPerHour)

\* the lifecycle test of one row: kept iff the start parses and now < start + delay
isKept(r, n) ==
  /\ isValidISO(r.start_time)
  /\ ~(n >= fromISO(r.start_time) + REMOVAL_DELAY_HOURS * SecondsPerHour)

\* kept.sort((a, b) => new Date(a.start_time) - new Date(b.start_time)): stable
\* insertSorted placing a row before the rows of equal start (used to test the
\* properties)
RECURSIVE insertSorted_beforeEquals(_, _)
insertSorted_beforeEquals(sorted, r) ==
  IF sorted = <<>> THEN <<r>>
  ELSE IF fromISO(r.start_time) <= fromISO(sorted[Len(sorted)].start_time)
       THEN insertSorted_beforeEquals(SubSeq(sorted, 1, Len(sorted) - 1), r)
              \o <<sorted[Len(sorted)]>>
       ELSE Append(sorted, r)

RECURSIVE insertSorted(_, _)
insertSorted(sorted, r) ==
  IF sorted = <<>> THEN <<r>>
  ELSE IF fromISO(r.start_time) < fromISO(sorted[Len(sorted)].start_time)
       THEN insertSorted(SubSeq(sorted, 1, Len(sorted) - 1), r)
              \o <<sorted[Len(sorted)]>>
       ELSE Append(sorted, r)

RECURSIVE sortByStart(_)
sortByStart(rows) ==
  IF rows = <<>> THEN <<>>
  ELSE insertSorted(sortByStart(SubSeq(rows, 1, Len(rows) - 1)), rows[Len(rows)])

-----------------------------------------------------------------------------
(* The run of main as a state machine.                                     *)
(*   store     the rows of the CSV file                                    *)
(*   feed      the entries the ICS URL serves (in the order of the parse)  *)
(*   feedOk    whether the download succeeds (res.ok)                      *)
(*   now       DateTime.now(), in seconds                                  *)
(*   pc        where main stands: idle, fetch, merge, filter, write        *)
(*   existing, incoming, merged, kept   the locals of main                 *)
(*   exitCode  the exit status of the last run ("none" before the first)   *)
(*   hist      one record per finished run (what it read and wrote)        *)
(*   args, ret the arguments and the value of a function applied on its    *)
(*             own (empty while main runs)                                 *)

VARIABLES store, feed, feedOk, now, pc, existing, incoming, merged, kept,
          exitCode, hist, args, ret

vars == <<store, feed, feedOk, now, pc, existing, incoming, merged, kept,
          exitCode, hist, args, ret>>

\* how many runs of the script a behaviour holds
MaxRuns == 2
\* how many rows the store holds at first, and how many entries a feed holds
MaxStore == 2
MaxFeed == 2

SeqsUpTo(S, n) == UNION {[1..k -> S] : k \in 0..n}

InitWith(Stores, Feeds, Nows) ==
  /\ store \in Stores
  /\ feed \in Feeds
  /\ feedOk \in BOOLEAN
  /\ now \in Nows
  /\ pc = "idle"
  /\ existing = <<>>
  /\ incoming = <<>>
  /\ merged = EmptyMerge
  /\ kept = <<>>
  /\ exitCode = "none"
  /\ hist = <<>>
  /\ args = <<>>
  /\ ret = <<>>

\* main starts: 1) load existing csv
Start ==
  /\ pc = "idle"
  /\ Len(hist) < MaxRuns
  /\ existing' = parseCSV(store)
  /\ incoming' = <<>>
  /\ merged' = EmptyMerge
  /\ kept' = <<>>
  /\ pc' = "fetch"
  /\ UNCHANGED <<store, feed, feedOk, now, exitCode, hist>>
  /\ UNCHANGED <<args, ret>>

\* 2) fetch/parse ICS, the download succeeds
FetchOk ==
  /\ pc = "fetch"
  /\ feedOk
  /\ incoming' = incomingOf(feed)
  /\ pc' = "merge"
  /\ UNCHANGED <<store, feed, feedOk, now, existing, merged, kept, exitCode, hist>>
  /\ UNCHANGED <<args, ret>>

\* 2) the download fails: main throws, main().catch exits with status 1
\* FetchFail publishing the rows of the store alone (used to test the properties)
FetchFail_writesExisting ==
  /\ pc = "fetch"
  /\ ~feedOk
  /\ store' = unparseCSV(existing)
  /\ pc' = "idle"
  /\ exitCode' = "1"
  /\ hist' = Append(hist, [before |-> store, feed |-> feed, now |-> now,
                           ok |-> FALSE, out |-> unparseCSV(existing)])
  /\ UNCHANGED <<feed, feedOk, now, existing, incoming, merged, kept, args, ret>>

FetchFail ==
  /\ pc = "fetch"
  /\ ~feedOk
  /\ pc' = "idle"
  /\ exitCode' = "1"
  /\ hist' = Append(hist, [before |-> store, feed |-> feed, now |-> now,
                           ok |-> FALSE, out |-> store])
  /\ UNCHANGED <<store, feed, feedOk, now, existing, incoming, merged, kept>>
  /\ UNCHANGED <<args, ret>>

\* 3) existing.forEach(addOrMerge); incoming.forEach(addOrMerge)
Merge ==
  /\ pc = "merge"
  /\ merged' = forEachAddOrMerge(forEachAddOrMerge(EmptyMerge, existing), incoming)
  /\ pc' = "filter"
  /\ UNCHANGED <<store, feed, feedOk, now, existing, incoming, kept, exitCode, hist>>
  /\ UNCHANGED <<args, ret>>

mapValues(m) == [i \in DOMAIN m |-> m[i].row]

\* 4) remove past rows once start+delay has passed, 5) sort
Lifecycle ==
  /\ pc = "filter"
  /\ LET live(r) == isKept(r, now)
     IN  kept' = sortByStart(SelectSeq(mapValues(merged.map), live))
  /\ pc' = "write"
  /\ UNCHANGED <<store, feed, feedOk, now, existing, incoming, merged, exitCode, hist>>
  /\ UNCHANGED <<args, ret>>

\* 5) write: the file is replaced by the kept rows, main returns
Write ==
  /\ pc = "write"
  /\ store' = unparseCSV(kept)
  /\ pc' = "idle"
  /\ exitCode' = "0"
  /\ hist' = Append(hist, [before |-> store, feed |-> feed, now |-> now,
                           ok |-> TRUE, out |-> unparseCSV(kept)])
  /\ UNCHANGED <<feed, feedOk, now, existing, incoming, merged, kept>>
  /\ UNCHANGED <<args, ret>>

Run == Start \/ FetchOk \/ FetchFail \/ Merge \/ Lifecycle \/ Write

-----------------------------------------------------------------------------
(* The texts the bounded inputs are drawn from.                            *)

Lock(v) == <<"!">> \o v
Empty == <<>>

Cafe == <<"C", "a", "f", "e">>
CafeAccent == <<"C", "a", "f", "e-acute">>
Bal == <<"B", "a", "l">>

U1 == <<"u1">>
U2 == <<"u2">>
Manual1 == <<"manual_1">>

PlaceP == <<"P">>
PlaceQ == <<"Q">>

Poster == <<"poster.jpg">>
AutoJpg == <<"https://cdn/", "auto.jpg">>
Logo == <<"images/", "logo.png">>

E0 == <<"https://cdn/", "e0">>
E1 == <<"https://cdn/", "e1">>

\* ISO text of an instant, in the script's zone and in another one
T(t) == toISO(t)
Z(t) == <<isoOther(t)>>

\* a description holding the one line: [!]key: value
Tag(bang, key, value) ==
  (IF bang THEN <<"!">> ELSE <<>>) \o <<key, ":", " ">> \o value

Unparseable == <<"b", "a", "d">>

Hours(h) == h * SecondsPerHour

-----------------------------------------------------------------------------
(* Spec: runs of the script over a small store and a small feed.           *)

GenStoreRows ==
  { Row(Manual1, Cafe, T(0), PlaceP, Lock(Poster), Empty, Empty),
    Row(U1, Lock(Bal), Lock(T(3600)), Lock(PlaceQ), Lock(Logo), Lock(E0), Empty),
    Row(Empty, CafeAccent, Z(3600), PlaceP, Logo, Empty, Empty),
    Row(U2, Lock(Empty), Unparseable, Empty, Poster, Empty, E0),
    Row(Empty, Empty, T(0), PlaceQ, Empty, Empty, Empty),
    Row(Lock(U1), Bal, T(30), Empty, Lock(Poster), Empty, Empty) }

GenEvents ==
  { Event("VEVENT", U1, Cafe, StartAt(30), PlaceP, E1, Tag(FALSE, "cover", AutoJpg)),
    Event("VEVENT", U2, CafeAccent, StartAt(0), PlaceP, Empty, Empty),
    Event("VEVENT", Empty, Bal, StartAt(3600), Empty, Empty, Tag(TRUE, "place", PlaceQ)),
    Event("VEVENT", U1, Bal, StartInvalid, PlaceQ, Empty, Tag(TRUE, "cover", Logo)),
    Event("VTIMEZONE", U2, Cafe, StartAt(0), Empty, Empty, Empty),
    Event("VEVENT", U2, Cafe, StartMissing, PlaceP, E1, Empty) }

GenNows == {Hours(23), Hours(24), Hours(25)}

Init ==
  InitWith(SeqsUpTo(GenStoreRows, MaxStore), SeqsUpTo(GenEvents, MaxFeed), GenNows)

Next == Run

Spec == Init /\ [][Next]_vars

-----------------------------------------------------------------------------
(* SpecPair: mergeRowsManualFirst as a function, applied to one pair of    *)
(* rows as main holds them when it calls it: the existing row is a store   *)
(* row (parseCSV, start rounded) or an earlier feed row, the incoming row  *)
(* a feed row (toRowFromICS, start rounded).                               *)

SpacedPlace == <<"P", " ", " ", "Q">>
HelloAssoWidget == <<"https://www.helloasso.com/", "org/", "widget">>

PairStoreRows ==
  { Row(m[1], a[1], a[2], a[3], m[2], m[3], m[4]) :
      a \in { <<Cafe, T(0), Empty>>,
              <<Lock(Bal), Lock(T(3600)), Lock(PlaceP)>>,
              <<Bal, Z(30), PlaceP>>,
              <<Lock(Empty), Unparseable, <<"P", " ", "Q">> >> },
      m \in { <<U1, Empty, Empty, Empty>>,
              <<U2, Poster, E0, E0>>,
              <<Lock(U1), Lock(Poster), Lock(E0), Lock(E0)>>,
              <<Empty, Logo, Empty, E0>>,
              <<U1, Lock(Logo), E0, Empty>>,
              <<U1, <<"LOGO.PNG">>, Lock(E1), E1>> } }

PairEvents ==
  { Event("VEVENT", b[1], b[2], b[3], b[4], d[1], d[2]) :
      b \in { <<U1, Cafe, StartAt(30), Empty>>,
              <<U2, CafeAccent, StartAt(3600), PlaceQ>>,
              <<Empty, Bal, StartInvalid, PlaceP>>,
              <<Lock(U1), Cafe, StartAt(0), PlaceP>> },
      d \in { <<Empty, Empty>>,
              <<E1, Tag(FALSE, "cover", Logo)>>,
              <<E1, Tag(TRUE, "cover", Logo)>>,
              <<Empty, Tag(FALSE, "Image", AutoJpg) \o <<"\n">> \o Tag(TRUE, "url", E1)>>,
              <<Empty, Tag(TRUE, "place", PlaceQ)>>,
              <<E1, Tag(FALSE, "place", SpacedPlace)>>,
              <<HelloAssoWidget, Tag(FALSE, "ticket", HelloAssoWidget)>>,
              <<Empty, <<"B", "a", "l", " ", "https://cdn/", "alt.png">> >> } }

PairFeedRows == {withRoundedStart(toRowFromICS(e)) : e \in PairEvents}

PairExistingRows ==
  {withRoundedStart(parseCSV(<<r>>)[1]) : r \in {x \in PairStoreRows : parseCSV(<<x>>) # <<>>}}
    \cup PairFeedRows

InitPair ==
  /\ store = <<>>
  /\ feed = <<>>
  /\ feedOk = TRUE
  /\ now = 0
  /\ pc = "pair"
  /\ existing \in {<<r>> : r \in PairExistingRows}
  /\ incoming \in {<<r>> : r \in PairFeedRows}
  /\ merged = EmptyMerge
  /\ kept = <<>>
  /\ exitCode = "none"
  /\ hist = <<>>
  /\ args = <<>>
  /\ ret = <<>>

\* map.set(key, mergeRowsManualFirst(ex, r)) for the pair
MergePair ==
  /\ pc = "pair"
  /\ LET ex == existing[1]
         r == incoming[1]
         m == mergeRowsManualFirst(ex, r)
     IN  merged' = [map |-> <<[key |-> keyOf(ex), row |-> m]>>,
                    log |-> <<[key |-> keyOf(ex), existing |-> ex,
                               incoming |-> r, merged |-> m]>>]
  /\ pc' = "paired"
  /\ UNCHANGED <<store, feed, feedOk, now, existing, incoming, kept, exitCode, hist>>
  /\ UNCHANGED <<args, ret>>

NextPair == MergePair

SpecPair == InitPair /\ [][NextPair]_vars

-----------------------------------------------------------------------------
(* SpecLife: runs of the script over rows that differ in their start only, *)
(* at instants around start + REMOVAL_DELAY_HOURS.                         *)

LifeStoreRows ==
  { Row(U1, Cafe, T(0), PlaceP, Empty, Empty, Empty),
    Row(U2, Bal, Unparseable, PlaceQ, Empty, Empty, Empty),
    Row(Empty, Bal, Z(3630), Empty, Empty, Empty, Empty),
    Row(U2, Empty, T(3600), PlaceQ, Empty, Empty, Empty),
    Row(Empty, Bal, T(3600), Empty, Poster, Empty, Empty) }

LifeEvents ==
  { Event("VEVENT", U1, Cafe, StartAt(30), PlaceP, Empty, Empty),
    Event("VEVENT", U2, Bal, StartInvalid, PlaceQ, Empty, Empty),
    Event("VEVENT", Empty, CafeAccent, StartAt(3600), Empty, Empty, Empty) }

LifeNows == {Hours(h) : h \in {23, 24, 25, 26}}

InitLife ==
  InitWith(SeqsUpTo(LifeStoreRows, MaxStore), SeqsUpTo(LifeEvents, MaxFeed), LifeNows)

SpecLife == InitLife /\ [][Run]_vars

-----------------------------------------------------------------------------
(* Properties.                                                             *)

ManualFirstFields == {"id", "cover", "event_url", "ticket_url"}
FeedFields == {"name", "start_time", "place"}

\* a text that begins with the lock marker
startsWithMarker(v) == v # NULL /\ v # <<>> /\ Head(v) = "!"

\* the instant a kept row's start denotes plus h hours
startPlus(r, h) == fromISO(r.start_time) + Hours(h)

\* C1: a second run over the same feed snapshot, at the same now, with the store
\* as the first run wrote it, writes the same rows as the first run.
C1_Idempotent ==
  \A i \in DOMAIN hist : \A j \in DOMAIN hist :
    ( /\ j = i + 1
      /\ hist[i].ok /\ hist[j].ok
      /\ hist[j].feed = hist[i].feed
      /\ hist[j].now = hist[i].now
      /\ hist[j].before = hist[i].out )
    => hist[j].out = hist[i].out

\* C2: a store holding one record with an id and a locked cover and no event_url,
\* and a feed holding one entry of the same fingerprint: the run writes exactly
\* one record, with the store's cover unlocked and the feed's event_url.
C2_ManualAndFeedPairMerge ==
  \A i \in DOMAIN hist :
    LET ex == parseCSV(hist[i].before)
        inc == incomingOf(hist[i].feed)
    IN  ( /\ hist[i].ok
          /\ Len(ex) = 1 /\ Len(inc) = 1
          /\ hasVal(ex[1].id)
          /\ isLocked(ex[1].cover)
          /\ ex[1].event_url = <<>>
          /\ hasVal(inc[1].event_url)
          /\ isValidISO(ex[1].start_time)
          /\ canonicalKey(ex[1]) = canonicalKey(inc[1])
          /\ hist[i].now < startPlus(withRoundedStart(ex[1]), REMOVAL_DELAY_HOURS) )
        => /\ Len(hist[i].out) = 1
           /\ hist[i].out[1].cover = unlock(ex[1].cover)
           /\ hist[i].out[1].event_url = inc[1].event_url

\* the store rows and the feed rows that addOrMerge files under key k
existingWithKey(k) == {i \in DOMAIN existing : keyOf(withRoundedStart(existing[i])) = k}
incomingWithKey(k) == {j \in DOMAIN incoming : keyOf(withRoundedStart(incoming[j])) = k}

\* C3: when one store record and one feed record resolve to the same identity,
\* every field the store record holds locked ("!V") comes out of the merge as V,
\* whatever non-empty value the feed record holds for it.
C3_LockedStoreValueWins ==
  pc = "filter" =>
    \A i \in DOMAIN existing : \A j \in DOMAIN incoming :
      LET k == keyOf(withRoundedStart(existing[i]))
      IN  ( /\ existingWithKey(k) = {i}
            /\ incomingWithKey(k) = {j} )
          => \A f \in Fields :
               (isLocked(existing[i][f]) /\ hasVal(incoming[j][f]))
               => \E n \in DOMAIN merged.map :
                    /\ merged.map[n].key = k
                    /\ merged.map[n].row[f] = unlock(existing[i][f])

\* C4: no value a run writes to the store begins with the lock marker.
C4_NoMarkerWritten ==
  \A i \in DOMAIN hist :
    hist[i].ok =>
      \A k \in DOMAIN hist[i].out : \A f \in Fields :
        ~startsWithMarker(hist[i].out[k][f])

\* Levenshtein distance of two texts
RECURSIVE editDistance(_, _)
editDistance(a, b) ==
  IF a = <<>> THEN Len(b)
  ELSE IF b = <<>> THEN Len(a)
  ELSE IF Head(a) = Head(b) THEN editDistance(Tail(a), Tail(b))
  ELSE LET x == editDistance(Tail(a), b)
           y == editDistance(a, Tail(b))
           z == editDistance(Tail(a), Tail(b))
       IN  1 + (IF x <= y /\ x <= z THEN x ELSE IF y <= z THEN y ELSE z)

\* C8: with an empty store, two feed records of the same place and the same
\* minute-rounded start whose normalized titles are within edit distance 2 are
\* written as one record.
C8_FuzzyCollapse ==
  ( /\ pc = "write"
    /\ existing = <<>>
    /\ Len(incoming) = 2
    /\ incoming[1].place = incoming[2].place
    /\ isValidISO(incoming[1].start_time)
    /\ roundToMinuteISO(incoming[1].start_time) = roundToMinuteISO(incoming[2].start_time)
    /\ editDistance(slug(incoming[1].name), slug(incoming[2].name)) <= 2
    /\ now < startPlus(withRoundedStart(incoming[1]), REMOVAL_DELAY_HOURS) )
  => Len(kept) = 1

\* the rows a run wrote for the record of identifier id
writtenWithId(h, id) == {k \in DOMAIN h.out : h.out[k].id = id}

\* the rows the feed of a run holds for the record of identifier id
feedRowsWithId(h, id) ==
  LET inc == incomingOf(h.feed)
  IN  {inc[j] : j \in {n \in DOMAIN inc : inc[n].id = id}}

\* C5: a store record holds "!V" in a field and the feed holds a record of the
\* same identifier with another non-empty value W in that field: the first run
\* writes V in that field, and so does the second run, for every field.
C5_LockPersists ==
  ( /\ Len(hist) = 2
    /\ hist[1].ok /\ hist[2].ok
    /\ hist[2].feed = hist[1].feed )
  => LET ex == parseCSV(hist[1].before)
     IN  \A i \in DOMAIN ex : \A f \in Fields \ {"id"} :
           ( /\ hasVal(ex[i].id) /\ ~isLocked(ex[i].id)
             /\ \A n \in DOMAIN ex : ex[n].id = ex[i].id => n = i
             /\ isLocked(ex[i][f]) /\ hasVal(unlock(ex[i][f]))
             /\ \E r \in feedRowsWithId(hist[1], ex[i].id) :
                  hasVal(r[f]) /\ clean(r[f]) # unlock(ex[i][f]) )
           => \A n \in 1..2 : \A k \in writtenWithId(hist[n], ex[i].id) :
                hist[n].out[k][f] = unlock(ex[i][f])

\* C6: in every merge of a pair, a manual-first field whose existing value is a
\* non-empty unlocked V and whose incoming value is a non-empty W other than V
\* has V in the merged row.
C6_ManualFirst ==
  \A n \in DOMAIN merged.log :
    LET l == merged.log[n]
    IN  \A f \in ManualFirstFields :
          ( /\ hasVal(l.existing[f]) /\ ~isLocked(l.existing[f])
            /\ hasVal(l.incoming[f])
            /\ l.incoming[f] # l.existing[f] )
          => l.merged[f] = l.existing[f]

\* a pair whose existing cover and event_url are unlocked and non-empty and
\* whose incoming cover and event_url are other non-empty values, merged
C6_Witness ==
  /\ pc = "paired"
  /\ \E n \in DOMAIN merged.log :
       LET l == merged.log[n]
       IN  \A f \in {"cover", "event_url"} :
             /\ hasVal(l.existing[f]) /\ ~isLocked(l.existing[f])
             /\ hasVal(l.incoming[f])
             /\ l.incoming[f] # l.existing[f]
             /\ l.merged[f] = l.existing[f]

\* a field value with no text: null and "" are both written as ""
textOf(v) == IF v = NULL THEN <<>> ELSE v

\* C7 as stated: in every merge of a pair, a feed-authoritative field whose
\* existing value is unlocked has the incoming value W itself when W is
\* non-empty, and the existing value itself when the incoming value is empty.
C7_FeedAuthoritativeVerbatim ==
  \A n \in DOMAIN merged.log :
    LET l == merged.log[n]
    IN  \A f \in FeedFields :
          ~isLocked(l.existing[f])
          => textOf(l.merged[f]) =
               (IF hasVal(l.incoming[f]) THEN textOf(l.incoming[f])
                ELSE textOf(l.existing[f]))

\* C7: in every merge of a pair, a feed-authoritative field whose existing value
\* is unlocked has the incoming value W with its whitespace runs collapsed and
\* trimmed when W is non-empty (a lock marker W carries included), and the
\* existing value so normalized when the incoming value is empty.
C7_FeedAuthoritativeCleaned ==
  \A n \in DOMAIN merged.log :
    LET l == merged.log[n]
    IN  \A f \in FeedFields :
          ~isLocked(l.existing[f])
          => l.merged[f] =
               (IF hasVal(l.incoming[f]) THEN clean(l.incoming[f])
                ELSE clean(l.existing[f]))

\* a pair whose existing place is unlocked and whose incoming place comes from
\* a place directive with a run of two spaces, merged
C7_Witness ==
  /\ pc = "paired"
  /\ \E n \in DOMAIN merged.log :
       LET l == merged.log[n]
       IN  /\ ~isLocked(l.existing.place)
           /\ l.incoming.place = SpacedPlace
           /\ l.merged.place = <<"P", " ", "Q">>
           /\ hasVal(l.incoming.name) /\ ~isLocked(l.existing.name)
           /\ l.merged.name = l.incoming.name

\* C9: the rows the lifecycle step keeps are exactly the merged rows whose
\* start_time is a valid timestamp with now < start_time + 24 h; a row whose
\* start_time does not parse is dropped and the run goes on to write.
C9_LifecycleIff ==
  pc = "write" =>
    /\ \A n \in DOMAIN merged.map :
         LET r == merged.map[n].row
         IN  (\E k \in DOMAIN kept : kept[k] = r)
             <=> ( /\ isValidISO(r.start_time)
                   /\ now < fromISO(r.start_time) + Hours(REMOVAL_DELAY_HOURS) )
    /\ \A k \in DOMAIN kept : \E n \in DOMAIN merged.map : merged.map[n].row = kept[k]

\* the filter has run at exactly start + 24 h over a row starting at instant 0
\* and a row whose start does not parse, and kept neither
C9_Witness ==
  /\ pc = "write"
  /\ now = Hours(REMOVAL_DELAY_HOURS)
  /\ \E n \in DOMAIN merged.map : merged.map[n].row.start_time = T(0)
  /\ \E n \in DOMAIN merged.map : ~isValidISO(merged.map[n].row.start_time)
  /\ kept = <<>>

\* C10: in every merge of a pair whose incoming cover matches the generic-logo
\* pattern, an empty existing cover stays empty, an existing cover that is not a
\* generic logo is the merged cover (unlocked if it was locked), and the merged
\* cover is the incoming one only if the existing cover already was that value.
C10_GenericLogoGuard ==
  \A n \in DOMAIN merged.log :
    LET l == merged.log[n]
        ex == l.existing.cover
        own == IF isLocked(ex) THEN unlock(ex) ELSE ex
    IN  isGenericLogo(l.incoming.cover)
        => /\ ~hasVal(ex) => l.merged.cover = <<>>
           /\ (hasVal(own) /\ ~isGenericLogo(own)) => l.merged.cover = own
           /\ l.merged.cover = l.incoming.cover => ex = l.incoming.cover

\* a pair with an empty existing cover and an incoming generic logo, merged
C10_Witness ==
  /\ pc = "paired"
  /\ \E n \in DOMAIN merged.log :
       LET l == merged.log[n]
       IN  /\ l.existing.cover = <<>>
           /\ isGenericLogo(l.incoming.cover)
           /\ ~isLocked(l.incoming.cover)
           /\ l.merged.cover = <<>>

\* C11: no two records a run emits resolve, by keyOf applied to the emitted
\* record, to the same identity.
C11_OnePerIdentity ==
  pc = "write" =>
    \A i \in DOMAIN kept : \A j \in DOMAIN kept :
      i # j => keyOf(kept[i]) # keyOf(kept[j])

-----------------------------------------------------------------------------
(* Functions applied on their own: main is at rest, args holds the         *)
(* arguments and ret receives the value.                                   *)

InitCall(Args) ==
  /\ store = <<>>
  /\ feed = <<>>
  /\ feedOk = TRUE
  /\ now = 0
  /\ pc = "call"
  /\ existing = <<>>
  /\ incoming = <<>>
  /\ merged = EmptyMerge
  /\ kept = <<>>
  /\ exitCode = "none"
  /\ hist = <<>>
  /\ args \in Args
  /\ ret = <<>>

\* the function returns v
Return(v) ==
  /\ pc = "call"
  /\ ret' = <<v>>
  /\ pc' = "returned"
  /\ UNCHANGED <<store, feed, feedOk, now, existing, incoming, merged, kept,
                 exitCode, hist, args>>

-----------------------------------------------------------------------------
(* SpecTags: parseDescTags over descriptions of a few lines.               *)

\* how many lines a description holds
MaxTagLines == 2

DescLines ==
  { Tag(FALSE, "cover", Poster), Tag(TRUE, "cover", AutoJpg),
    Tag(FALSE, "Image", Logo), Tag(TRUE, "place", PlaceQ),
    Tag(FALSE, "place", PlaceP), Tag(FALSE, "url", E1),
    Tag(TRUE, "ticket", E0), Bal }

\* lines.join("\n")
RECURSIVE joinLines(_)
joinLines(lines) ==
  IF lines = <<>> THEN <<>>
  ELSE IF Len(lines) = 1 THEN lines[1]
  ELSE lines[1] \o <<"\n">> \o joinLines(Tail(lines))

InitTags == InitCall({<<ls>> : ls \in SeqsUpTo(DescLines, MaxTagLines) \ {<<>>}})

ParseTags == Return(parseDescTags(joinLines(args[1])))

NextTags == ParseTags

SpecTags == InitTags /\ [][NextTags]_vars

\* the lines of ls that are directives for a field of keys ks, in order
linesFor(ls, ks) ==
  LET hit(l) == tagMatch(l).matched /\ tagMatch(l).key \in ks
  IN  SelectSeq(ls, hit)

\* C12: for each field, parseDescTags returns the value and the lock flag of the
\* first line of the description that is a directive for that field.
C12_FirstMatchWins ==
  pc = "returned" =>
    LET first(ks) == tagMatch(linesFor(args[1], ks)[1])
        has(ks) == linesFor(args[1], ks) # <<>>
    IN  /\ has(CoverTagKeys)
             => /\ ret[1].cover = trim(first(CoverTagKeys).val)
                /\ ret[1].coverLock = first(CoverTagKeys).bang
        /\ has(TicketTagKeys)
             => /\ ret[1].ticket_url = trim(first(TicketTagKeys).val)
                /\ ret[1].ticketLock = first(TicketTagKeys).bang
        /\ has(EventTagKeys)
             => /\ ret[1].event_url = trim(first(EventTagKeys).val)
                /\ ret[1].eventLock = first(EventTagKeys).bang
        /\ has(PlaceTagKeys)
             => /\ ret[1].place = trim(first(PlaceTagKeys).val)
                /\ ret[1].placeLock = first(PlaceTagKeys).bang

\* C13: a run whose fetch fails ends with exit status 1 and leaves the store
\* as it was: nothing is merged and nothing is written.
C13_FetchFailureWritesNothing ==
  [][(pc = "fetch" /\ ~feedOk)
       => /\ store' = store
          /\ exitCode' = "1"
          /\ pc' = "idle"
          /\ merged' = EmptyMerge /\ kept' = <<>>]_vars

\* a run over a store with rows has ended on a failed fetch
C13_Witness ==
  /\ pc = "idle"
  /\ exitCode = "1"
  /\ ~feedOk
  /\ hist # <<>>
  /\ parseCSV(store) # <<>>
  /\ unparseCSV(parseCSV(store)) # store

\* C14: every record a run emits has a non-empty name and a start_time that is
\* a valid timestamp.
C14_NameAndStartPresent ==
  \A i \in DOMAIN hist :
    hist[i].ok =>
      \A k \in DOMAIN hist[i].out :
        /\ hasVal(hist[i].out[k].name)
        /\ isValidISO(hist[i].out[k].start_time)

\* the rows main meets, in the order it meets them: store rows, then feed rows
encountered == existing \o incoming

\* the place in that order where the identity filed under key k is first met
firstSeen(k) ==
  minOf({n \in DOMAIN encountered : keyOf(withRoundedStart(encountered[n])) = k})

\* C15: the records a run emits are in ascending order of start, and records of
\* equal start are in the order in which their identities were first met, store
\* rows before feed rows.
C15_SortedStable ==
  pc = "write" =>
    /\ \A i \in DOMAIN kept : \A j \in DOMAIN kept :
         i < j => fromISO(kept[i].start_time) <= fromISO(kept[j].start_time)
    /\ \A i \in DOMAIN kept : \A j \in DOMAIN kept :
         (i < j /\ fromISO(kept[i].start_time) = fromISO(kept[j].start_time))
         => \E m \in DOMAIN merged.map : \E n \in DOMAIN merged.map :
              /\ m < n
              /\ merged.map[m].row = kept[i]
              /\ merged.map[n].row = kept[j]
    /\ \A m \in DOMAIN merged.map : \A n \in DOMAIN merged.map :
         m < n => firstSeen(merged.map[m].key) < firstSeen(merged.map[n].key)

\* the sort has run over two rows of equal start, a store row and a feed row,
\* and a row met later that starts earlier
C15_Witness ==
  /\ pc = "write"
  /\ \E i \in DOMAIN kept : \E j \in DOMAIN kept :
       /\ i < j
       /\ fromISO(kept[i].start_time) = fromISO(kept[j].start_time)
       /\ kept[i] # kept[j]
  /\ \E m \in DOMAIN merged.map : \E n \in DOMAIN merged.map :
       /\ m < n
       /\ \E i \in DOMAIN kept : kept[i] = merged.map[m].row
       /\ \E j \in DOMAIN kept : kept[j] = merged.map[n].row
       /\ fromISO(merged.map[m].row.start_time) > fromISO(merged.map[n].row.start_time)

-----------------------------------------------------------------------------
(* SpecTriple: mergeRowsManualFirst over three rows of one id, as a store   *)
(* row and two feed rows of the same UID reach it, grouped both ways.      *)

TripleRows ==
  { Row(U1, n, T(0), PlaceP, c, e, Empty) :
      n \in {Cafe, Lock(Bal)},
      c \in {Empty, Logo, Poster},
      e \in {Empty, E0, Lock(E1)} }

InitTriple == InitCall(TripleRows \X TripleRows \X TripleRows)

MergeTriple ==
  Return([left |-> mergeRowsManualFirst(mergeRowsManualFirst(args[1], args[2]), args[3]),
          right |-> mergeRowsManualFirst(args[1], mergeRowsManualFirst(args[2], args[3]))])

NextTriple == MergeTriple

SpecTriple == InitTriple /\ [][NextTriple]_vars

\* C16: merge(merge(a, b), c) = merge(a, merge(b, c)), field by field.
C16_MergeAssociative ==
  pc = "returned" => \A f \in Fields : ret[1].left[f] = ret[1].right[f]

-----------------------------------------------------------------------------
(* SpecKey: keyOf over two rows as addOrMerge may hold them.               *)

KeyRows ==
  { Row(i, n, t, p, Empty, Empty, Empty) :
      i \in {Empty, U1, U2, Lock(U1)},
      n \in {Cafe, CafeAccent, Bal},
      t \in {T(0), T(30), T(3600), NULL},
      p \in {PlaceP, Empty} }

InitKey == InitCall(KeyRows \X KeyRows)

KeyPair == Return(<<keyOf(args[1]), keyOf(args[2])>>)

NextKey == KeyPair

SpecKey == InitKey /\ [][NextKey]_vars

\* the fingerprint of a row: slug of the title, minute-rounded start, slug of
\* the place
fingerprint(r) == <<slug(r.name), roundToMinuteISO(r.start_time), slug(r.place)>>

\* C17: two rows with non-empty ids get the same key exactly when the ids are
\* the same, whatever their title, start and place; two rows without id get the
\* same key exactly when their fingerprints are the same; a row with an id and
\* a row without never get the same key.
C17_IdentityPriority ==
  pc = "returned" =>
    LET a == args[1]
        b == args[2]
        same == ret[1][1] = ret[1][2]
    IN  /\ (hasVal(a.id) /\ hasVal(b.id)) => (same <=> a.id = b.id)
        /\ (~hasVal(a.id) /\ ~hasVal(b.id)) => (same <=> fingerprint(a) = fingerprint(b))
        /\ (hasVal(a.id) /\ ~hasVal(b.id)) => ~same
        /\ (~hasVal(a.id) /\ hasVal(b.id)) => ~same

\* two rows of one id that differ in title, start and place have been keyed,
\* and the keys are the same
C17_Witness ==
  /\ pc = "returned"
  /\ hasVal(args[1].id)
  /\ args[1].id = args[2].id
  /\ slug(args[1].name) # slug(args[2].name)
  /\ roundToMinuteISO(args[1].start_time) # roundToMinuteISO(args[2].start_time)
  /\ args[1].place # args[2].place
  /\ ret[1][1] = ret[1][2]

\* the minute an instant lies in
minuteOf(t) == t \div SecondsPerMinute

\* the merged rows without id that have the title and the place of row a and
\* start in the minute of a
twinsOf(a) ==
  {n \in DOMAIN merged.map :
     LET r == merged.map[n].row
     IN  /\ ~hasVal(r.id)
         /\ slug(r.name) = slug(a.name)
         /\ slug(r.place) = slug(a.place)
         /\ isValidISO(r.start_time)
         /\ minuteOf(fromISO(r.start_time)) = minuteOf(fromISO(a.start_time))}

\* C18: store rows without id that have the same title and place and start in
\* the same minute are collapsed to one record, and every start_time a run
\* emits is at a whole minute.
C18_MinuteResolution ==
  pc = "write" =>
    /\ \A i \in DOMAIN existing :
         (~hasVal(existing[i].id) /\ isValidISO(existing[i].start_time))
         => Cardinality(twinsOf(existing[i])) = 1
    /\ \A k \in DOMAIN kept :
         \E t \in Instants :
           /\ t % SecondsPerMinute = 0
           /\ kept[k].start_time = toISO(t)

\* a run over two store rows without id, of one title and place, whose starts
\* differ by seconds only, has kept one row, starting at the whole minute
C18_Witness ==
  /\ pc = "write"
  /\ Len(existing) = 2
  /\ ~hasVal(existing[1].id) /\ ~hasVal(existing[2].id)
  /\ existing[1].name = existing[2].name
  /\ existing[1].place = existing[2].place
  /\ isValidISO(existing[1].start_time) /\ isValidISO(existing[2].start_time)
  /\ fromISO(existing[1].start_time) # fromISO(existing[2].start_time)
  /\ minuteOf(fromISO(existing[1].start_time)) = minuteOf(fromISO(existing[2].start_time))
  /\ incoming = <<>>
  /\ Len(kept) = 1
  /\ kept[1].start_time = T(3600)

-----------------------------------------------------------------------------
(* SpecFeed: runs of the script over feed entries that differ in their UID *)
(* and SUMMARY texts, and store rows with and without id.                  *)

Blank == <<" ">>

FeedStoreRows ==
  { Row(U1, Bal, T(0), PlaceQ, Empty, Empty, Empty),
    Row(Empty, Cafe, T(0), PlaceP, Empty, Empty, Empty),
    Row(Empty, Lock(Empty), T(0), Empty, Poster, Empty, Empty),
    Row(Lock(U1), Cafe, T(0), PlaceP, Empty, Empty, Empty) }

FeedEvents ==
  { Event("VEVENT", U1, Cafe, StartAt(30), PlaceP, Empty, Empty),
    Event("VEVENT", Empty, Cafe, StartAt(0), PlaceP, E1, Empty),
    Event("VEVENT", Blank, Cafe, StartAt(0), PlaceP, Empty, Empty),
    Event("VEVENT", Empty, Blank, StartAt(0), Empty, E1, Empty) }

FeedNows == {Hours(23), Hours(25)}

InitFeed ==
  InitWith(SeqsUpTo(FeedStoreRows, MaxStore), SeqsUpTo(FeedEvents, MaxFeed), FeedNows)

SpecFeed == InitFeed /\ [][Run]_vars

\* store row i and feed row j are filed under one key
sameEntry(i, j) ==
  keyOf(withRoundedStart(existing[i])) = keyOf(withRoundedStart(incoming[j]))

\* C19 as stated: every row built from an accepted feed entry has a non-empty
\* id, and a store row is filed with a feed row only when it has that same
\* non-empty id.
C19_FeedRowsAlwaysHaveId ==
  pc = "filter" =>
    /\ \A j \in DOMAIN incoming : hasVal(incoming[j].id)
    /\ \A i \in DOMAIN existing : \A j \in DOMAIN incoming :
         sameEntry(i, j)
         => (hasVal(existing[i].id) /\ existing[i].id = incoming[j].id)

\* the text ev.uid || ev.summary of a feed entry
idText(ev) == IF ev.uid # <<>> THEN ev.uid ELSE ev.summary

\* C19: a row built from an accepted feed entry has a non-empty id exactly when
\* the entry's UID (its SUMMARY when there is no UID) holds a character that is
\* not whitespace; such a row is filed under its id, a store row is filed with
\* it only when it has the same id text, and a store row without id never is.
C19_FeedRowIdentity ==
  pc = "filter" =>
    LET evs == SelectSeq(feed, accepted)
    IN  /\ \A j \in DOMAIN incoming :
             hasVal(incoming[j].id)
             <=> \E n \in DOMAIN idText(evs[j]) : ~IsSpace(idText(evs[j])[n])
        /\ \A j \in DOMAIN incoming :
             hasVal(incoming[j].id)
             => \E n \in DOMAIN merged.map :
                  merged.map[n].key = <<"id__">> \o incoming[j].id
        /\ \A i \in DOMAIN existing : \A j \in DOMAIN incoming :
             (hasVal(incoming[j].id) /\ sameEntry(i, j))
             => existing[i].id = incoming[j].id

\* a feed row with an id has been merged onto the store row of that id, next
\* to a store row without id that has the feed row's fingerprint
C19_Witness ==
  /\ pc = "filter"
  /\ Len(incoming) = 1
  /\ hasVal(incoming[1].id)
  /\ Len(merged.log) = 1
  /\ merged.log[1].existing.id = incoming[1].id
  /\ Len(merged.map) = 2
  /\ \E i \in DOMAIN existing :
       /\ ~hasVal(existing[i].id)
       /\ canonicalKey(withRoundedStart(existing[i]))
            = canonicalKey(withRoundedStart(incoming[1]))

====
